---- MODULE Spec2Model ----
(***************************************************************************)
(* Osmos: the Model/Document lifecycle engine (lib/model.js, here          *)
(* src/unnamed/part_001) over the in-memory driver (lib/drivers/memory.js, *)
(* here src/unnamed/part_003).                                             *)
(*                                                                         *)
(* A raw record is a mapping from field names to values; a Document wraps  *)
(* one raw record, and its payload (toRawJSON) is that record as it is     *)
(* when the driver is called.  The store holds record values: what a       *)
(* Document changes after a write reaches the store with the next write    *)
(* only, and a fetched Document is another Document than the saved one     *)
(* (spec sections 4.4 and 5).  The driver's store is an insertion-ordered  *)
(* object (Object.keys order), kept as a sequence of [key, rec].           *)
(* Every asynchronous Model operation is a process in an operation slot:   *)
(* it waits for its will<Op> hooks, runs its core action, waits for its    *)
(* did<Op> hooks and calls the caller's callback.  Hooks are callbacks of  *)
(* the user: their outcome is drawn from small sets.                       *)
(***************************************************************************)
EXTENDS Integers, Sequences, FiniteSets, TLC

-----------------------------------------------------------------------------
(* Bounds *)

MaxDocs  == 2    \* Documents the caller holds in a run
MaxOps   == 2    \* Model operations in flight at a time
MaxKeys  == 2    \* keys the driver generates in a run
MaxHooks == 2    \* callbacks registered for one hook name

DocIds == 1..MaxDocs
OpIds  == 1..MaxOps

-----------------------------------------------------------------------------
(* Values *)

Undef    == "undefined"         \* JavaScript undefined; String(undefined)
FalsyKey == ""                  \* a primary key that is set and falsy
KeyNames == <<"k1", "k2", "k3", "k4">>
RandKey(i) == KeyNames[i]       \* the i-th value of crypto.randomBytes(20).toString('hex')
RandKeys == {RandKey(i) : i \in 1..MaxKeys}
CallerKey == "c1"               \* a key of the caller's own making
Keys     == RandKeys \cup {CallerKey, FalsyKey}
Values   == {"a", "ab"}         \* field values; "a" is a substring of "ab"
ValuesOf(f) == IF f = "name" THEN Values ELSE {"a"}
Wild     == "*"                 \* a field a query spec does not mention

Fields   == {"name", "email", "id", "_primaryKey"}
PKNames  == {"_primaryKey", "id"}   \* schema.primaryKey, one per Model
Required == {"name"}                \* schema.required

\* if (x): JavaScript truthiness of a string or undefined
Truthy(v) == v # Undef /\ v # ""

EmptyRaw == [f \in Fields |-> Undef]

VARIABLES
    pkName,     \* schema.primaryKey of the Model
    defaults,   \* schema.properties[p].default (Undef: none declared)
    data,       \* Driver.data: sequence of [key, rec], in insertion order
    minted,     \* how many keys the driver has generated
    docs,       \* the Documents the caller holds
    ops,        \* the Model operations in flight
    last        \* the latest write to the store, and whether its operation is over

vars == <<pkName, defaults, data, minted, docs, ops, last>>

\* schema.properties
Props == {"name", "email", pkName}

-----------------------------------------------------------------------------
(* Documents (lib/document) *)

NoDoc == [raw |-> EmptyRaw, origin |-> "none"]

\* new documentClass(model, data): the Document wraps the raw record
NewDocument(raw, origin) ==
    [raw |-> raw, origin |-> origin]

\* Document.primaryKey getter
primaryKey(doc) == doc.raw[pkName]

\* Document.primaryKey setter
setPrimaryKey(doc, k) == [doc EXCEPT !.raw[pkName] = k]

\* Document.set(name, value) through the proxy: declared, not the primary key
CanSet(f) == f \in Props /\ f # pkName

set(doc, f, v) == [doc EXCEPT !.raw[f] = v]

\* Document.toRawJSON(): the raw record of the Document
toRawJSON(doc) == doc.raw

\* schema.validateDocument(doc, cb): every required property is present
validateDocument(doc) == \A f \in Required : doc.raw[f] # Undef

-----------------------------------------------------------------------------
(* The memory driver (OsmosMemoryDriver) *)

StoredKeys(d) == {d[i].key : i \in 1..Len(d)}

IndexOf(d, k) == CHOOSE i \in 1..Len(d) : d[i].key = k

\* this.data[primaryKey]
Lookup(d, k) == IF k \in StoredKeys(d) THEN d[IndexOf(d, k)].rec ELSE EmptyRaw

Has(d, k) == k \in StoredKeys(d)


\* String(x).match(pattern) for the strings of the model: a regular
\* expression without metacharacters matches where it is a substring
Match(s, p) ==
    \/ p = ""
    \/ p = s
    \/ <<p, s>> \in {<<"a", "ab">>}

\* matchSpec(target, spec)
matchSpec(target, spec) ==
    \A f \in Fields : spec[f] = Wild \/ Match(target[f], spec[f])

\* Driver.get: the stored record, or nothing
MemGet(d, k) == [found |-> Has(d, k), rec |-> Lookup(d, k)]

\* Driver.post(document, data, cb): the error, the document's new key, the store
MemPost(d, doc, payload, k) ==
    IF Truthy(primaryKey(doc))
    THEN [err |-> "post", doc |-> doc, data |-> d]
    ELSE LET rec == [[payload EXCEPT ![pkName] = k] EXCEPT !["_primaryKey"] = k]
         IN  [err  |-> "none",
              doc  |-> [setPrimaryKey(doc, k) EXCEPT !.raw["_primaryKey"] = k],
              data |-> IF Has(d, k)
                       THEN [d EXCEPT ![IndexOf(d, k)].rec = rec]
                       ELSE Append(d, [key |-> k, rec |-> rec])]

\* a put that merges the payload into the stored record, field by field
MemPutMerge(d, doc, payload) ==
    LET k == primaryKey(doc)
    IN  IF ~Has(d, k) THEN d
        ELSE [d EXCEPT ![IndexOf(d, k)].rec =
                 [f \in Fields |-> IF payload[f] # Undef THEN payload[f] ELSE @[f]]]

\* a put that inserts the payload when the key is not stored
MemPutUpsert(d, doc, payload) ==
    LET k == primaryKey(doc)
    IN  IF ~Has(d, k) THEN Append(d, [key |-> k, rec |-> payload])
        ELSE [d EXCEPT ![IndexOf(d, k)].rec = payload]

\* Driver.put(document, data, cb)
MemPut(d, doc, payload) ==
    LET k == primaryKey(doc)
    IN  IF ~Has(d, k) THEN d
        ELSE [d EXCEPT ![IndexOf(d, k)].rec = payload]

\* Driver.find(model, spec, cb): the matching records in Object.keys order
MemFind(d, spec) ==
    LET hits == SelectSeq(d, LAMBDA e : matchSpec(e.rec, spec))
    IN  [i \in 1..Len(hits) |-> hits[i].rec]

\* Driver.findOne
MemFindOne(d, spec) ==
    LET hits == MemFind(d, spec)
    IN  [found |-> Len(hits) > 0,
         rec   |-> IF Len(hits) > 0 THEN hits[1] ELSE EmptyRaw]

\* Driver.del(model, spec, cb): delete this.data[result._primaryKey] per match
MemDel(d, spec) ==
    LET results == MemFind(d, spec)
        gone    == {results[i]["_primaryKey"] : i \in 1..Len(results)}
    IN  [count |-> Len(results),
         data  |-> SelectSeq(d, LAMBDA e : e.key \notin gone)]

-----------------------------------------------------------------------------
(* Hookable (lib/util/hookable): callHook and performHookCycle *)

WillOutcomes == {"ok", "stop", "fail"}  \* of the will<Op> hooks: "stop" sets args.stop
DidOutcomes  == {"ok", "fail"}          \* of the did<Op> hooks
InitOutcomes == {"ok", "willFail", "didFail"}   \* of willInitialize / didInitialize

NoSpec == [f \in Fields |-> Wild]

\* no write yet, or one that another has overtaken
NoWrite ==
    [op |-> 0, kind |-> "none", key |-> Undef, raw |-> EmptyRaw,
     stored |-> EmptyRaw, over |-> FALSE]

\* The run of one Model._initialize.  data and documentClass are args.data
\* and args.documentClass, document is args.document; nw and nd are the
\* numbers of callbacks registered for willInitialize and didInitialize; the
\* rest records what happened: data0 (the data of the call), ran (the
\* willInitialize callbacks that have called back), dids (the didInitialize
\* callbacks that have), built (the class that was constructed), order (the
\* callbacks and the construction, in the order they happened).
NoInit ==
    [pc |-> "none", nw |-> 0, nd |-> 0, data0 |-> EmptyRaw, data |-> EmptyRaw,
     documentClass |-> "Document", document |-> NoDoc, ran |-> <<>>, dids |-> 0,
     built |-> "none", order |-> <<>>]

\* An operation slot.  kind .. limit are the call and its arguments, stop ..
\* created what the operation has computed; the rest records what happened:
\* cbs (calls of the caller's callback), coreCbs (calls of the core action's
\* callback), calls (driver methods invoked), pkAt and wrote (the primary key
\* and the payload at the driver call), init (how _initialize ended), seen
\* (the record stored under the Document's key when save was called), pre
\* (the latest write, when it was over as this operation was called), drv
\* (whether the driver reported an error), made (how the create of
\* getOrCreate ended), ini (the run of a Model._initialize called by itself).
IdleOp ==
    [kind |-> "idle", pc |-> "idle", doc |-> 0, key |-> Undef, spec |-> NoSpec,
     start |-> 0, limit |-> 0, field |-> Undef, value |-> Undef,
     stop |-> FALSE, will |-> "none", did |-> "none", err |-> "none",
     res |-> NoDoc, list |-> <<>>, count |-> -1, created |-> FALSE,
     cbs |-> 0, coreCbs |-> 0, calls |-> {}, pkAt |-> Undef, wrote |-> EmptyRaw,
     init |-> "none", seen |-> EmptyRaw, pre |-> NoWrite,
     drv |-> "none", made |-> "none", ini |-> NoInit]

\* performHookCycle, first stage: callHook('will' + name, args, cb).  A failing
\* hook ends the cycle with its error; otherwise the core action runs next.
WillStage(op, w) ==
    IF w = "fail"
    THEN [op EXCEPT !.will = "fail", !.err = "willHook", !.pc = "done", !.cbs = @ + 1]
    ELSE [op EXCEPT !.will = w, !.stop = (w = "stop")]

\* performHookCycle, second stage done: the core action called back with err
CoreDone(op, err) ==
    IF err # "none"
    THEN [op EXCEPT !.err = err, !.pc = "done", !.cbs = @ + 1, !.coreCbs = @ + 1]
    ELSE [op EXCEPT !.pc = "did", !.coreCbs = @ + 1]

\* performHookCycle, third stage: callHook('did' + name, args, cb), then callback(err)
DidStage(op, c) ==
    [op EXCEPT !.did = c, !.err = IF c = "fail" THEN "didHook" ELSE "none",
               !.pc = "done", !.cbs = @ + 1]

\* Model._initialize(data, cb): [err, doc] as handed to cb
Initialize(raw, i, origin) ==
    [err |-> IF i = "ok" THEN "none" ELSE "initHook",
     doc |-> IF i = "willFail" THEN NoDoc ELSE NewDocument(raw, origin)]

\* what a willInitialize callback does with the args it shares with
\* _initialize: nothing, replace args.data, replace args.documentClass, fail
HookRaws == {[EmptyRaw EXCEPT !["name"] = v] : v \in Values}

WillInitHooks ==
    {[act |-> a, raw |-> EmptyRaw] : a \in {"ok", "class", "fail"}}
        \cup {[act |-> "data", raw |-> r] : r \in HookRaws}

\* the data _initialize is called with: driver.create's {} or a stored record
InitRaws == {EmptyRaw, [EmptyRaw EXCEPT !["name"] = "a"]}

\* a construction from the data _initialize was called with
constructFromCall(s) ==
    [s EXCEPT !.document = NewDocument(s.data0, "initialize"),
              !.built = s.documentClass,
              !.order = Append(@, "new"), !.pc = "did"]

\* args.document = new args.documentClass(self, args.data); cb()
construct(s) ==
    [s EXCEPT !.document = NewDocument(s.data, "initialize"),
              !.built = s.documentClass,
              !.order = Append(@, "new"), !.pc = "did"]

\* async.series, after a callback of a hook has called back without error:
\* once callHook('willInitialize') is through the Document is constructed
\* and callHook('didInitialize') starts, once that is through cb is called
series(s) ==
    IF s.pc = "will" /\ Len(s.ran) = s.nw
    THEN LET b == construct(s)
         IN  IF b.nd = 0 THEN [b EXCEPT !.pc = "cb"] ELSE b
    ELSE IF s.pc = "did" /\ s.dids = s.nd
    THEN [s EXCEPT !.pc = "cb"]
    ELSE s

\* the operation after a callback of a hook has called back with err: an
\* error ends the series at once, and function(err) { cb(err, args.document) }
\* is what ends it in either case
initialized(op, s, err) ==
    LET t == IF err # "none" THEN [s EXCEPT !.pc = "cb"] ELSE series(s)
    IN  IF t.pc = "cb"
        THEN [op EXCEPT !.ini = [t EXCEPT !.order = Append(@, "cb")],
                        !.pc = "done", !.err = err, !.cbs = @ + 1,
                        !.res = t.document]
        ELSE [op EXCEPT !.ini = t]

-----------------------------------------------------------------------------
(* The caller *)

Live(d) == docs[d].origin # "none"

\* the slot the next Document of the caller goes to (0: none is left)
FreeDoc ==
    IF \E d \in DocIds : ~Live(d)
    THEN CHOOSE d \in DocIds : ~Live(d) /\ \A d2 \in DocIds : d2 < d => Live(d2)
    ELSE 0

\* the caller starts operation op in the first idle slot
Call(o, op) ==
    /\ ops[o].pc = "idle"
    /\ \A o2 \in OpIds : o2 < o => ops[o2].pc # "idle"
    /\ ops' = [ops EXCEPT ![o] = [op EXCEPT !.pre = IF last.over THEN [last EXCEPT !.op = 0]
                                                 ELSE NoWrite]]

\* doc[f] = v
SetField(d, f, v) ==
    /\ Live(d)
    /\ CanSet(f)
    /\ v \in ValuesOf(f)
    /\ docs[d].raw[f] # v
    /\ docs' = [docs EXCEPT ![d] = set(@, f, v)]
    /\ UNCHANGED <<pkName, defaults, data, minted, ops, last>>

\* doc.primaryKey = k, with a key the caller made up or has seen
SetPrimaryKey(d, k) ==
    /\ Live(d)
    /\ k \in {CallerKey, FalsyKey} \cup {RandKey(i) : i \in 1..minted}
    /\ primaryKey(docs[d]) # k
    /\ docs' = [docs EXCEPT ![d] = setPrimaryKey(@, k)]
    /\ UNCHANGED <<pkName, defaults, data, minted, ops, last>>

\* the caller's callback returns: the caller keeps the Document it received
\* (keep) or lets it go, and the operation slot is free again
Return(o, keep) ==
    /\ ops[o].pc \in {"done", "thrown"}
    /\ IF keep
       THEN /\ ops[o].res # NoDoc
            /\ FreeDoc # 0
            /\ docs' = [docs EXCEPT ![FreeDoc] = ops[o].res]
       ELSE docs' = docs
    /\ ops' = [ops EXCEPT ![o] = IdleOp]
    /\ last' = IF last.op = o THEN [last EXCEPT !.op = 0] ELSE last
    /\ UNCHANGED <<pkName, defaults, data, minted>>

-----------------------------------------------------------------------------
(* Model.create and Model.getOrCreate *)

\* the forEach over schema.properties: if (prop.default) doc[key] = prop.default
ApplyDefaults(doc) ==
    [doc EXCEPT !.raw = [f \in Fields |->
        IF f \in Props /\ Truthy(defaults[f]) THEN defaults[f] ELSE @[f]]]

\* a create that applies the default of the primary-key field as well
createKeyed(i, c) ==
    LET init == Initialize(EmptyRaw, i, "create")
    IN  IF init.err # "none"
        THEN [thrown |-> FALSE, err |-> init.err, doc |-> NoDoc]
        ELSE [thrown |-> FALSE,
              err |-> IF c = "fail" THEN "didCreate" ELSE "none",
              doc |-> ApplyDefaults(init.doc)]

\* Model.create(cb): what cb receives, or the exception of Document.set on
\* the primary-key field
create(i, c) ==
    LET init == Initialize(EmptyRaw, i, "create")
    IN  IF init.err # "none"
        THEN [thrown |-> FALSE, err |-> init.err, doc |-> NoDoc]
        ELSE IF Truthy(defaults[pkName])
        THEN [thrown |-> TRUE, err |-> "set", doc |-> NoDoc]
        ELSE [thrown |-> FALSE,
              err |-> IF c = "fail" THEN "didCreate" ELSE "none",
              doc |-> ApplyDefaults(init.doc)]

\* model.create(function(err, doc) {...}): the caller holds the new Document
Create(d, i, c) ==
    /\ d = FreeDoc
    /\ LET r == create(i, c)
       IN  docs' = IF ~r.thrown /\ r.err = "none"
                   THEN [docs EXCEPT ![FreeDoc] = r.doc]
                   ELSE docs
    /\ UNCHANGED <<pkName, defaults, data, minted, ops, last>>

\* Model.get(key, cb) is called: the willGet hooks start
GetCall(o, k) ==
    /\ Call(o, [IdleOp EXCEPT !.kind = "get", !.pc = "will", !.key = k])
    /\ UNCHANGED <<pkName, defaults, data, minted, docs, last>>

\* Model.getOrCreate(key, cb) is called: it calls this.get
GetOrCreateCall(o, k) ==
    /\ Call(o, [IdleOp EXCEPT !.kind = "getOrCreate", !.pc = "will", !.key = k])
    /\ UNCHANGED <<pkName, defaults, data, minted, docs, last>>

\* a core action of Model.get that does not look at args.stop
getCoreNoStop(op, i) ==
    LET r == MemGet(data, op.key)
        called == [op EXCEPT !.calls = @ \cup {"get"}]
    IN  IF r.found
        THEN CoreDone([called EXCEPT !.res = Initialize(r.rec, i, "get").doc,
                                     !.init = i], "none")
        ELSE CoreDone(called, "none")

\* a core action of Model.get that reports a missing record as an error
getCoreNotFoundError(op, i) ==
    IF op.stop THEN CoreDone(op, "none")
    ELSE LET r == MemGet(data, op.key)
             called == [op EXCEPT !.calls = @ \cup {"get"},
                                  !.pre = IF @ = [last EXCEPT !.op = 0] THEN @ ELSE NoWrite]
         IN  IF r.found
             THEN CoreDone([called EXCEPT !.res = Initialize(r.rec, i, "get").doc,
                                          !.init = i], "none")
             ELSE CoreDone(called, "notFound")

\* the core action of Model.get: the error of _initialize is dropped
getCore(op, i) ==
    IF op.stop THEN CoreDone(op, "none")
    ELSE LET r == MemGet(data, op.key)
             called == [op EXCEPT !.calls = @ \cup {"get"},
                                  !.pre = IF @ = [last EXCEPT !.op = 0] THEN @ ELSE NoWrite]
         IN  IF r.found
             THEN CoreDone([called EXCEPT !.res = Initialize(r.rec, i, "get").doc,
                                          !.init = i], "none")
             ELSE CoreDone(called, "none")

\* the willGet hooks are through: the core action of Model.get runs
GetCore(o, w, i) ==
    /\ ops[o].kind \in {"get", "getOrCreate"}
    /\ ops[o].pc = "will"
    /\ LET op == WillStage(ops[o], w)
       IN  ops' = [ops EXCEPT ![o] = IF op.pc = "done" THEN op ELSE getCore(op, i)]
    /\ UNCHANGED <<pkName, defaults, data, minted, docs, last>>

\* the callback getOrCreate gives this.get: if (err || doc) cb(err, doc, false),
\* else it calls this.create
gotOrCreate(op) ==
    IF op.kind = "getOrCreate" /\ op.pc = "done" /\ op.err = "none" /\ op.res = NoDoc
    THEN [op EXCEPT !.pc = "create", !.cbs = @ - 1]
    ELSE op

\* the callback getOrCreate gives this.create: doc.primaryKey = key; cb(null, doc, true)
GetOrCreateCreate(o, i, c) ==
    /\ ops[o].pc = "create"
    /\ LET r == create(i, c)
           how == IF r.thrown THEN "set" ELSE IF r.err = "none" THEN "ok" ELSE r.err
       IN  ops' = [ops EXCEPT ![o] =
               IF r.thrown \/ r.doc = NoDoc
               THEN [@ EXCEPT !.pc = "thrown", !.err = "TypeError", !.made = how]
               ELSE [@ EXCEPT !.pc = "done", !.err = "none", !.created = TRUE,
                              !.made = how,
                              !.res = setPrimaryKey(r.doc, ops[o].key),
                              !.cbs = @ + 1]]
    /\ UNCHANGED <<pkName, defaults, data, minted, docs, last>>

-----------------------------------------------------------------------------
(* Model._save *)

\* a _save that starts the hook cycle without validating
SaveCallNoValidation(o, d) ==
    /\ Live(d)
    /\ Call(o, [IdleOp EXCEPT !.kind = "save", !.pc = "will", !.doc = d,
                              !.seen = Lookup(data, primaryKey(docs[d]))])
    /\ UNCHANGED <<pkName, defaults, data, minted, docs, last>>

\* Document.save(cb) -> Model._save(doc, cb): validation, then the willSave hooks
SaveCall(o, d) ==
    /\ Live(d)
    /\ Call(o, IF validateDocument(docs[d])
               THEN [IdleOp EXCEPT !.kind = "save", !.pc = "will", !.doc = d,
                                   !.seen = Lookup(data, primaryKey(docs[d]))]
               ELSE [IdleOp EXCEPT !.kind = "save", !.pc = "done", !.doc = d,
                                   !.err = "validation", !.cbs = 1])
    /\ UNCHANGED <<pkName, defaults, data, minted, docs, last>>

\* the record of a write of operation o: the key, the raw record of the
\* Document and the record the store held under the key before
Write(o, kind, k, raw) ==
    [op |-> o, kind |-> kind, key |-> k, raw |-> raw,
     stored |-> Lookup(data, k), over |-> FALSE]

\* a routing on "the key is defined" instead of "the key is truthy"
RouteDefined(doc) == IF primaryKey(doc) # Undef THEN "put" ELSE "post"

\* if (args.doc.primaryKey) put, else post
Route(doc) == IF Truthy(primaryKey(doc)) THEN "put" ELSE "post"

\* the core action of Model._save
SaveCore(o, w) ==
    /\ ops[o].kind = "save"
    /\ ops[o].pc = "will"
    /\ LET op  == WillStage(ops[o], w)
           d   == op.doc
           doc == docs[d]
           at  == [op EXCEPT !.pkAt = primaryKey(doc), !.wrote = toRawJSON(doc),
                             !.calls = @ \cup {Route(doc)}]
       IN  IF op.pc = "done" \/ op.stop
           THEN /\ ops' = [ops EXCEPT ![o] = IF op.pc = "done" THEN op ELSE CoreDone(op, "none")]
                /\ UNCHANGED <<data, minted, docs, last>>
           ELSE IF Route(doc) = "put"
           THEN /\ data' = MemPut(data, doc, toRawJSON(doc))
                /\ ops' = [ops EXCEPT ![o] = CoreDone([at EXCEPT !.key = primaryKey(doc)], "none")]
                /\ last' = Write(o, "save", primaryKey(doc), toRawJSON(doc))
                /\ UNCHANGED <<minted, docs>>
           ELSE /\ minted < MaxKeys
                /\ LET r == MemPost(data, doc, toRawJSON(doc), RandKey(minted + 1))
                   IN  /\ data' = r.data
                       /\ docs' = [docs EXCEPT ![d] = r.doc]
                       /\ ops' = [ops EXCEPT ![o] =
                              CoreDone([at EXCEPT !.key = primaryKey(r.doc)], r.err)]
                       /\ last' = Write(o, "save", primaryKey(r.doc), toRawJSON(r.doc))
                /\ minted' = minted + 1
    /\ UNCHANGED <<pkName, defaults>>

-----------------------------------------------------------------------------
(* Model._delete *)

\* Document.del(cb) -> Model._delete(doc, cb): throws without a primary key
DeleteCall(o, d) ==
    /\ Live(d)
    /\ Call(o, IF Truthy(primaryKey(docs[d]))
               THEN [IdleOp EXCEPT !.kind = "delete", !.pc = "will", !.doc = d]
               ELSE [IdleOp EXCEPT !.kind = "delete", !.pc = "thrown", !.doc = d,
                                   !.err = "noPrimaryKey"])
    /\ UNCHANGED <<pkName, defaults, data, minted, docs, last>>

\* spec[args.doc.model.schema.primaryKey] = args.doc.primaryKey
KeySpec(k) == [NoSpec EXCEPT ![pkName] = k]

\* the core action of Model._delete
DeleteCore(o, w) ==
    /\ ops[o].kind = "delete"
    /\ ops[o].pc = "will"
    /\ LET op == WillStage(ops[o], w)
           k  == primaryKey(docs[op.doc])
       IN  IF op.pc = "done" \/ op.stop
           THEN /\ ops' = [ops EXCEPT ![o] = IF op.pc = "done" THEN op ELSE CoreDone(op, "none")]
                /\ UNCHANGED <<data, last>>
           ELSE LET r == MemDel(data, KeySpec(k))
                IN  /\ data' = r.data
                    /\ last' = Write(o, "delete", k, toRawJSON(docs[op.doc]))
                    /\ ops' = [ops EXCEPT ![o] =
                           CoreDone([op EXCEPT !.calls = @ \cup {"del"}, !.pkAt = k,
                                               !.key = k, !.count = r.count], "none")]
    /\ UNCHANGED <<pkName, defaults, minted, docs>>

-----------------------------------------------------------------------------
(* performHookCycle's last stage, for every operation *)

DidHook(o, c) ==
    /\ ops[o].pc = "did"
    /\ ops' = [ops EXCEPT ![o] = gotOrCreate(DidStage(@, c))]
    /\ last' = IF last.op = o
               THEN [last EXCEPT !.over = (c = "ok")]
               ELSE last
    /\ UNCHANGED <<pkName, defaults, data, minted, docs>>

-----------------------------------------------------------------------------
(* Model.find, Model.findOne, Model.findLimit, Model._update *)

QuerySpecs == {NoSpec} \cup {[NoSpec EXCEPT !["name"] = v] : v \in Values}

\* how the _initialize of one found record ends: at once, at once with an
\* error, or only after the core action has called back
FindInits == {"ok", "fail", "late"}

\* args.documents when the core action first calls back: the Documents pushed
\* before the first failing _initialize, or all that were pushed at once
Pushed(recs, outs) ==
    LET n     == Len(recs)
        fails == {j \in 1..n : outs[j] = "fail"}
        upto  == IF fails = {} THEN n
                 ELSE (CHOOSE j \in fails : \A j2 \in fails : j <= j2) - 1
        idx   == SelectSeq([j \in 1..upto |-> j], LAMBDA j : outs[j] = "ok")
    IN  [j \in 1..Len(idx) |-> NewDocument(recs[idx[j]], "find")]

\* the core action of Model.find: cb(err) for each failing _initialize, and
\* cb(err) after the loop
findCore(op, outs) ==
    IF op.stop THEN CoreDone(op, "none")
    ELSE LET recs  == MemFind(data, op.spec)
             fails == Cardinality({j \in 1..Len(recs) : outs[j] = "fail"})
             done  == CoreDone([op EXCEPT !.calls = @ \cup {"find"},
                                          !.list = Pushed(recs, outs)],
                               IF fails > 0 THEN "initHook" ELSE "none")
         IN  [done EXCEPT !.coreCbs = fails + 1]

FindCall(o, spec) ==
    /\ Call(o, [IdleOp EXCEPT !.kind = "find", !.pc = "will", !.spec = spec])
    /\ UNCHANGED <<pkName, defaults, data, minted, docs, last>>

FindCore(o, w, outs) ==
    /\ ops[o].kind = "find"
    /\ ops[o].pc = "will"
    /\ LET op == WillStage(ops[o], w)
       IN  ops' = [ops EXCEPT ![o] = IF op.pc = "done" THEN op ELSE findCore(op, outs)]
    /\ UNCHANGED <<pkName, defaults, data, minted, docs, last>>

FindOneCall(o, spec) ==
    /\ Call(o, [IdleOp EXCEPT !.kind = "findOne", !.pc = "will", !.spec = spec])
    /\ UNCHANGED <<pkName, defaults, data, minted, docs, last>>

\* the core action of Model.findOne: the error of _initialize is passed on
findOneCore(op, i) ==
    IF op.stop THEN CoreDone(op, "none")
    ELSE LET r == MemFindOne(data, op.spec)
             called == [op EXCEPT !.calls = @ \cup {"findOne"}]
             init == Initialize(r.rec, i, "find")
         IN  IF r.found
             THEN CoreDone([called EXCEPT !.res = init.doc, !.init = i], init.err)
             ELSE CoreDone(called, "none")

FindOneCore(o, w, i) ==
    /\ ops[o].kind = "findOne"
    /\ ops[o].pc = "will"
    /\ LET op == WillStage(ops[o], w)
       IN  ops' = [ops EXCEPT ![o] = IF op.pc = "done" THEN op ELSE findOneCore(op, i)]
    /\ UNCHANGED <<pkName, defaults, data, minted, docs, last>>

FindLimitCall(o, spec, start, limit) ==
    /\ Call(o, [IdleOp EXCEPT !.kind = "findLimit", !.pc = "will",
                              !.spec = spec, !.start = start, !.limit = limit])
    /\ UNCHANGED <<pkName, defaults, data, minted, docs, last>>

\* the core action of Model.findLimit: self.db.findLimit is no function of
\* the memory driver, the call throws a TypeError
findLimitCore(op) ==
    IF op.stop THEN CoreDone(op, "none")
    ELSE [op EXCEPT !.pc = "thrown", !.err = "TypeError",
                    !.calls = @ \cup {"findLimit"}]

FindLimitCore(o, w) ==
    /\ ops[o].kind = "findLimit"
    /\ ops[o].pc = "will"
    /\ LET op == WillStage(ops[o], w)
       IN  ops' = [ops EXCEPT ![o] = IF op.pc = "done" THEN op ELSE findLimitCore(op)]
    /\ UNCHANGED <<pkName, defaults, data, minted, docs, last>>

\* Model._update(doc, payload, cb), with a payload of one field
UpdateCall(o, d, f, v) ==
    /\ Live(d)
    /\ Call(o, [IdleOp EXCEPT !.kind = "update", !.pc = "will",
                              !.doc = d, !.field = f, !.value = v])
    /\ UNCHANGED <<pkName, defaults, data, minted, docs, last>>

\* Document._update(payload, cb): the payload is merged into the raw record
bulkUpdate(doc, f, v) == [doc EXCEPT !.raw[f] = v]

\* the core action of Model._update
UpdateCore(o, w) ==
    /\ ops[o].kind = "update"
    /\ ops[o].pc = "will"
    /\ LET op == WillStage(ops[o], w)
       IN  IF op.pc = "done" \/ op.stop
           THEN /\ ops' = [ops EXCEPT ![o] = IF op.pc = "done" THEN op ELSE CoreDone(op, "none")]
                /\ docs' = docs
           ELSE /\ docs' = [docs EXCEPT ![op.doc] = bulkUpdate(@, op.field, op.value)]
                /\ ops' = [ops EXCEPT ![o] =
                       CoreDone([op EXCEPT !.calls = @ \cup {"update"}], "none")]
    /\ UNCHANGED <<pkName, defaults, data, minted, last>>

-----------------------------------------------------------------------------
(* A driver that reports an error *)

\* the driver method the core action of op calls
DriverMethod(op) ==
    CASE op.kind = "save"        -> Route(docs[op.doc])
      [] op.kind = "delete"      -> "del"
      [] op.kind = "getOrCreate" -> "get"
      [] OTHER                   -> op.kind

\* the core action of op when the driver calls back with an error and no
\* result: get, find, findOne, _save and _delete hand the error to cb;
\* findLimit reads result.count first
coreFailed(op) ==
    LET called == [op EXCEPT !.calls = @ \cup {DriverMethod(op)}, !.drv = "error"]
    IN  IF op.kind = "findLimit"
        THEN [called EXCEPT !.pc = "thrown", !.err = "TypeError"]
        ELSE IF op.kind = "find"
        THEN CoreDone([called EXCEPT !.list = <<>>], "driver")
        ELSE CoreDone(called, "driver")

\* the will hooks are through and the driver call of the core action fails
DriverFails(o) ==
    /\ ops[o].kind \in {"get", "getOrCreate", "find", "findOne", "findLimit",
                        "save", "delete"}
    /\ ops[o].pc = "will"
    /\ ops' = [ops EXCEPT ![o] = coreFailed(WillStage(@, "ok"))]
    /\ UNCHANGED <<pkName, defaults, data, minted, docs, last>>

-----------------------------------------------------------------------------
(* The specifications *)

NoDefaults == [f \in Fields |-> Undef]

\* the defaults a schema declares: none, one for a field, a falsy one, one
\* for the primary-key field
DefaultSets ==
    {NoDefaults,
     [NoDefaults EXCEPT !["email"] = "a"],
     [NoDefaults EXCEPT !["email"] = ""],
     [NoDefaults EXCEPT !["id"] = CallerKey]}

Init ==
    /\ pkName \in PKNames
    /\ defaults \in DefaultSets
    /\ data = <<>>
    /\ minted = 0
    /\ docs = [d \in DocIds |-> NoDoc]
    /\ ops = [o \in OpIds |-> IdleOp]
    /\ last = NoWrite

\* a schema that declares no defaults
InitPlain == Init /\ defaults = NoDefaults

\* One Document, one operation at a time, every operation of the Model
NextOne ==
    \/ SetField(1, "name", "a")
    \/ \E k \in Keys : SetPrimaryKey(1, k)
    \/ Return(1, FALSE)
    \/ \E i \in InitOutcomes, c \in DidOutcomes : Create(1, i, c)
    \/ \E c \in DidOutcomes : DidHook(1, c)
    \/ \E k \in Keys : GetCall(1, k)
    \/ \E k \in Keys : GetOrCreateCall(1, k)
    \/ \E w \in WillOutcomes, i \in InitOutcomes : GetCore(1, w, i)
    \/ \E i \in InitOutcomes, c \in DidOutcomes : GetOrCreateCreate(1, i, c)
    \/ SaveCall(1, 1)
    \/ \E w \in WillOutcomes : SaveCore(1, w)
    \/ DeleteCall(1, 1)
    \/ \E w \in WillOutcomes : DeleteCore(1, w)
    \/ \E spec \in QuerySpecs : FindCall(1, spec)
    \/ \E w \in WillOutcomes, outs \in [1..MaxKeys -> FindInits] : FindCore(1, w, outs)
    \/ \E spec \in QuerySpecs : FindOneCall(1, spec)
    \/ \E w \in WillOutcomes, i \in InitOutcomes : FindOneCore(1, w, i)
    \/ \E start \in 0..1, limit \in 1..2 : FindLimitCall(1, NoSpec, start, limit)
    \/ \E w \in WillOutcomes : FindLimitCore(1, w)
    \/ UpdateCall(1, 1, "email", "a")
    \/ \E w \in WillOutcomes : UpdateCore(1, w)

SpecOne == InitPlain /\ [][NextOne]_vars

\* A Document created under every schema of DefaultSets, given keys and
\* saved, and the Documents of getOrCreate
NextCreate ==
    \/ \E i \in InitOutcomes, c \in DidOutcomes : Create(1, i, c)
    \/ SetField(1, "name", "a")
    \/ \E k \in Keys : SetPrimaryKey(1, k)
    \/ SaveCall(1, 1)
    \/ \E w \in WillOutcomes : SaveCore(1, w)
    \/ GetOrCreateCall(1, CallerKey)
    \/ \E w \in WillOutcomes, i \in InitOutcomes : GetCore(1, w, i)
    \/ \E i \in InitOutcomes, c \in DidOutcomes : GetOrCreateCreate(1, i, c)
    \/ \E c \in DidOutcomes : DidHook(1, c)
    \/ \E keep \in BOOLEAN : Return(1, keep)

SpecCreate == Init /\ [][NextCreate]_vars

\* Two Documents, one operation at a time: saved, deleted and fetched by the
\* keys the driver has generated
NextTwo ==
    \/ \E d \in DocIds, i \in InitOutcomes, c \in DidOutcomes : Create(d, i, c)
    \/ \E d \in DocIds : SetField(d, "name", "a")
    \/ \E d \in DocIds, k \in RandKeys : SetPrimaryKey(d, k)
    \/ \E d \in DocIds : SaveCall(1, d)
    \/ \E w \in WillOutcomes : SaveCore(1, w)
    \/ \E d \in DocIds : DeleteCall(1, d)
    \/ \E w \in WillOutcomes : DeleteCore(1, w)
    \/ \E k \in RandKeys : GetCall(1, k)
    \/ \E w \in WillOutcomes, i \in InitOutcomes : GetCore(1, w, i)
    \/ \E c \in DidOutcomes : DidHook(1, c)
    \/ Return(1, FALSE)

SpecTwo == InitPlain /\ [][NextTwo]_vars

\* One record, the Document that was saved and the Documents fetched from
\* it, and operations in flight at the same time
NextRace ==
    \/ Create(1, "ok", "ok")
    \/ \E v \in Values : SetField(1, "name", v)
    \/ SetField(2, "email", "a")
    \/ \E o \in OpIds, d \in DocIds : SaveCall(o, d)
    \/ \E o \in OpIds : SaveCore(o, "ok")
    \/ \E o \in OpIds : GetCall(o, RandKey(1))
    \/ \E o \in OpIds : GetCore(o, "ok", "ok")
    \/ \E o \in OpIds, c \in DidOutcomes : DidHook(o, c)
    \/ \E o \in OpIds, keep \in BOOLEAN : Return(o, keep)

\* a schema whose primary key is the field id
InitRace == InitPlain /\ pkName = "id"

SpecRace == InitRace /\ [][NextRace]_vars

-----------------------------------------------------------------------------
(* Properties *)

Min(a, b) == IF a < b THEN a ELSE b

\* the operations whose core action has run, or was skipped, without an error
Past(op) == op.pc \in {"did", "done"} /\ op.will \in {"ok", "stop"}

\* the fields of a payload that differ from the record the save has seen
Changed(op) == {f \in {"name", "email"} : op.wrote[f] # op.seen[f]}

\* C1: a _save past its validation whose willSave hooks neither fail nor set
\* stop issues exactly one driver write, put when the primary key of the
\* Document is set (truthy, as the code tests it) as the core action runs and
\* post otherwise, never both and never the other one; a Document that is
\* given the key X and saved goes through put and has the key X after it.
C1_SaveRoutes ==
    \A o \in OpIds :
        LET op == ops[o]
        IN  op.kind = "save" /\ op.will = "ok" =>
               /\ op.calls = {IF Truthy(op.pkAt) THEN "put" ELSE "post"}
               /\ Truthy(op.pkAt) => op.key = op.pkAt /\ op.err \in {"none", "didHook"}
               /\ ~Truthy(op.pkAt) => op.key \in RandKeys

\* a created Document, given a key of the caller, was saved for the first time
C1_Witness ==
    \E o \in OpIds :
        /\ ops[o].kind = "save" /\ ops[o].pc = "done" /\ ops[o].err = "none"
        /\ ops[o].calls = {"put"} /\ ops[o].pkAt = CallerKey
        /\ docs[ops[o].doc].origin = "create"
        /\ primaryKey(docs[ops[o].doc]) = CallerKey
        /\ minted = 0

\* C2: a Document saved without error and then fetched with Model.get by its
\* primary key exists, and every declared field of it has the value that was
\* saved, whether post assigned the key or the caller set it before the save.
C2_RoundTrip ==
    \A o \in OpIds :
        LET op == ops[o]
        IN  /\ op.kind = "get" /\ op.will = "ok" /\ Past(op)
            /\ op.init \in {"none", "ok"}
            /\ op.pre.kind = "save" /\ op.pre.key = op.key
            => /\ op.res # NoDoc
               /\ \A f \in Props : op.res.raw[f] = op.pre.raw[f]

\* C5: after a saved Document was deleted without error, Model.get of its
\* primary key ends without error and without a Document.
C5_DeletedIsGone ==
    \A o \in OpIds :
        LET op == ops[o]
        IN  /\ op.kind = "get" /\ op.will = "ok" /\ Past(op)
            /\ op.pre.kind = "delete" /\ op.pre.key = op.key
            /\ op.pre.stored = op.pre.raw
            => /\ op.res = NoDoc
               /\ op.err = "none" \/ op.did = "fail"

\* C6: when a will<Op> hook of get, find, findLimit, findOne, _update, _save
\* or _delete sets args.stop, the driver action (the bulk update of _update)
\* is not invoked and nothing is written, the did<Op> hook runs all the
\* same, and the callback of the caller is called once, without an error
\* unless that did<Op> hook fails.
C6_StopSkips ==
    \A o \in OpIds :
        LET op == ops[o]
        IN  op.stop /\ op.kind # "getOrCreate" =>
               /\ op.pc \in {"did", "done"}
               /\ op.calls = {} /\ op.wrote = EmptyRaw /\ last.op # o
               /\ op.res = NoDoc /\ op.list = <<>>
               /\ op.pc = "done" =>
                      /\ op.did \in DidOutcomes /\ op.cbs = 1
                      /\ op.did = "ok" => op.err = "none"

\* a save that would have posted was stopped, and has called back
C6_Witness ==
    \E o \in OpIds :
        /\ ops[o].kind = "save" /\ ops[o].stop /\ ops[o].pc = "done"
        /\ ops[o].did = "ok" /\ ops[o].err = "none"
        /\ primaryKey(docs[ops[o].doc]) = Undef
        /\ data = <<>>

\* C7: Model.findLimit(spec, start, limit) hands the caller count, the number
\* of the stored records that match spec, and min(limit, count - start)
\* Documents.
C7_FindLimitPage ==
    \A o \in OpIds :
        LET op == ops[o]
        IN  op.kind = "findLimit" /\ op.will = "ok" =>
               /\ op.pc \in {"did", "done"}
               /\ op.count = Len(MemFind(data, op.spec))
               /\ Len(op.list) = Min(op.limit, op.count - op.start)

\* C8: Model.getOrCreate(key), the hooks of its get succeeding, hands the
\* caller the stored Document and false when a record is stored under key,
\* and a new Document with the primary key key and true when none is; it
\* writes nothing.
C8_GetOrCreate ==
    \A o \in OpIds :
        LET op == ops[o]
        IN  /\ op.kind = "getOrCreate" /\ op.will = "ok" /\ op.did = "ok"
            /\ op.pc \in {"done", "thrown"}
            => /\ op.pc = "done" /\ op.err = "none" /\ op.cbs = 1
               /\ IF Has(data, op.key)
                  THEN ~op.created /\ op.res = NewDocument(Lookup(data, op.key), "get")
                  ELSE /\ op.created /\ op.res.origin = "create"
                       /\ primaryKey(op.res) = op.key

\* C10: a _save of a Document that fails the validation calls back with the
\* validation error, once, and has called no willSave hook, no didSave hook
\* and no driver method; nothing is written.
C10_ValidationFirst ==
    \A o \in OpIds :
        LET op == ops[o]
        IN  op.kind = "save" =>
               /\ ~validateDocument(docs[op.doc]) => op.err = "validation"
               /\ op.err = "validation" =>
                      /\ op.pc = "done" /\ op.cbs = 1
                      /\ op.will = "none" /\ op.did = "none"
                      /\ op.calls = {} /\ op.wrote = EmptyRaw /\ last.op # o

\* a Document without its required field was saved
C10_Witness ==
    \E o \in OpIds :
        /\ ops[o].kind = "save" /\ ops[o].err = "validation" /\ ops[o].cbs = 1
        /\ ~validateDocument(docs[ops[o].doc])

\* two saves of two Documents with put under the same key, both past the
\* driver, the first of which has seen the record that is stored before both
Racing(o1, o2) ==
    /\ o1 # o2
    /\ ops[o1].kind = "save" /\ ops[o2].kind = "save"
    /\ ops[o1].doc # ops[o2].doc
    /\ ops[o1].calls = {"put"} /\ ops[o2].calls = {"put"}
    /\ ops[o1].pkAt = ops[o2].pkAt
    /\ ops[o1].seen # EmptyRaw /\ ops[o2].seen # EmptyRaw
    /\ last.op = o2

\* C3: two Documents of one stored record, the one that was saved and one
\* fetched by Model.get, each change another field and are saved at the same
\* time; when both saves have ended without error the record stored under
\* the key, which a get returns, carries both changes.
C3_BothChangesSurvive ==
    \A o1, o2 \in OpIds :
        /\ Racing(o1, o2)
        /\ ops[o1].pc = "done" /\ ops[o2].pc = "done"
        /\ ops[o1].err = "none" /\ ops[o2].err = "none"
        /\ ops[o1].seen = ops[o2].seen
        /\ Changed(ops[o1]) # {} /\ Changed(ops[o2]) # {}
        /\ Changed(ops[o1]) \cap Changed(ops[o2]) = {}
        => LET rec == MemGet(data, ops[o1].pkAt).rec
           IN  /\ \A f \in Changed(ops[o1]) : rec[f] = ops[o1].wrote[f]
               /\ \A f \in Changed(ops[o2]) : rec[f] = ops[o2].wrote[f]

GetsKey(d) ==
    /\ docs'[d].origin = "create" /\ docs'[d].raw[pkName] # Undef
    /\ docs[d].origin = "none" \/ primaryKey(docs[d]) = Undef

\* the steps that may give the Document of slot d its key: the primaryKey
\* setter, a post of the driver, the setter called by getOrCreate
BySetter(d) ==
    /\ docs[d].origin = "create"
    /\ \E k \in Keys : docs' = [docs EXCEPT ![d] = setPrimaryKey(@, k)]

ByPost(d) ==
    \E o \in OpIds :
        /\ ops[o].kind = "save" /\ ops[o].doc = d /\ ops[o].pc = "will"
        /\ ops'[o].calls = {"post"} /\ ops'[o].pc = "did" /\ ~ops'[o].stop
        /\ docs'[d].raw[pkName] = RandKey(minted')

ByGetOrCreate(d) ==
    \E o \in OpIds :
        /\ ops[o].kind = "getOrCreate" /\ ops[o].created
        /\ docs[d].origin = "none" /\ docs'[d] = ops[o].res
        /\ primaryKey(ops[o].res) = ops[o].key

C9_Step == \A d \in DocIds : GetsKey(d) => BySetter(d) \/ ByPost(d) \/ ByGetOrCreate(d)

\* C9: the primaryKey of a Document of Model.create is undefined until the
\* primaryKey setter is called (by the caller, or by getOrCreate) or a save
\* of the Document goes through the post of the driver; create, the
\* defaults, field sets, stopped and failed saves give it no key.
C9_KeyOnlyBySetterOrPost == [][C9_Step]_vars

\* a Document created with a default applied has been through a stopped
\* save, and has no key
C9_Witness ==
    /\ docs[1].origin = "create" /\ primaryKey(docs[1]) = Undef
    /\ docs[1].raw["email"] = "a" /\ docs[1].raw["name"] = "a"
    /\ ops[1].kind = "save" /\ ops[1].doc = 1 /\ ops[1].stop /\ ops[1].pc = "done"

\* the driver finds nothing for the get or findOne of op
NotFound(op) ==
    \/ op.kind = "get" /\ op.calls = {"get"} /\ ~MemGet(data, op.key).found
    \/ op.kind = "findOne" /\ op.calls = {"findOne"} /\ ~MemFindOne(data, op.spec).found

\* C11: Model.get of a key without a stored record, and Model.findOne of a
\* spec no stored record matches, end with no error and an undefined
\* Document, and the didGet / didFindOne hook runs all the same.
C11_NotFoundIsNoError ==
    \A o \in OpIds :
        LET op == ops[o]
        IN  NotFound(op) =>
               /\ op.res = NoDoc /\ op.init = "none"
               /\ op.pc \in {"did", "done"}
               /\ op.pc = "done" =>
                      /\ op.did \in DidOutcomes /\ op.cbs = 1
                      /\ op.did = "ok" => op.err = "none"

\* a get of a key that is not stored, while another record is, has called back
C11_Witness ==
    \E o \in OpIds :
        /\ ops[o].kind = "get" /\ NotFound(ops[o]) /\ ops[o].pc = "done"
        /\ ops[o].did = "ok" /\ ops[o].err = "none" /\ ops[o].res = NoDoc
        /\ data # <<>>

\* a put of operation o in this step, under a key that is not stored
PutOfAbsent(o) ==
    /\ ops[o].pc = "will" /\ ops'[o].calls = {"put"}
    /\ ~Has(data, ops'[o].pkAt)

C12_Step ==
    \A o \in OpIds :
        PutOfAbsent(o) =>
            /\ data' = data
            /\ ops'[o].pc = "did" /\ ops'[o].err = "none"

C13_NoOperationAborts ==
    \A o \in OpIds :
        ops[o].kind \in {"get", "find", "findOne", "findLimit", "save", "update"} =>
            ops[o].pc # "thrown"

\* Every operation over a driver whose calls may fail, one at a time
NextFail ==
    \/ \E i \in InitOutcomes, c \in DidOutcomes : Create(1, i, c)
    \/ SetField(1, "name", "a")
    \/ SetPrimaryKey(1, CallerKey)
    \/ \E k \in RandKeys \cup {CallerKey} : GetCall(1, k)
    \/ \E k \in RandKeys \cup {CallerKey} : GetOrCreateCall(1, k)
    \/ \E w \in WillOutcomes, i \in InitOutcomes : GetCore(1, w, i)
    \/ \E i \in InitOutcomes, c \in DidOutcomes : GetOrCreateCreate(1, i, c)
    \/ SaveCall(1, 1)
    \/ \E w \in WillOutcomes : SaveCore(1, w)
    \/ DeleteCall(1, 1)
    \/ \E w \in WillOutcomes : DeleteCore(1, w)
    \/ FindCall(1, NoSpec)
    \/ \E w \in WillOutcomes, outs \in [1..MaxKeys -> FindInits] : FindCore(1, w, outs)
    \/ FindOneCall(1, NoSpec)
    \/ \E w \in WillOutcomes, i \in InitOutcomes : FindOneCore(1, w, i)
    \/ FindLimitCall(1, NoSpec, 0, 1)
    \/ \E w \in WillOutcomes : FindLimitCore(1, w)
    \/ DriverFails(1)
    \/ \E c \in DidOutcomes : DidHook(1, c)
    \/ Return(1, FALSE)

SpecFail == InitPlain /\ [][NextFail]_vars

\* C14: when the driver call of get, find, findOne, findLimit, _save or
\* _delete reports an error, findLimit with no result object too, the did
\* hook does not run and the callback of the caller gets that error.
C14_DriverErrorPropagates ==
    \A o \in OpIds :
        LET op == ops[o]
        IN  op.drv = "error" =>
               /\ op.pc = "done" /\ op.err = "driver"
               /\ op.did = "none" /\ op.cbs = 1

\* C15: when a willInitialize or didInitialize hook fails while Model.get or
\* Model.findOne initializes the record it has fetched, the callback of the
\* caller gets that error: the operation does not go on to end without an
\* error.
C15_InitErrorReachesCaller ==
    \A o \in OpIds :
        LET op == ops[o]
        IN  op.kind \in {"get", "findOne"} /\ op.init \in {"willFail", "didFail"} =>
               /\ op.pc = "done" /\ op.err = "initHook"
               /\ op.did = "none" /\ op.cbs = 1

\* the Documents of the records the driver finds for spec, in its order
Initialized(spec) ==
    LET recs == MemFind(data, spec)
    IN  [j \in 1..Len(recs) |-> NewDocument(recs[j], "find")]

\* C16: whenever Model.find goes on without an error to didFind and the
\* callback of the caller, the result holds one initialized Document for each
\* record the driver returned, in the driver's order, also when the
\* initialize hooks of a record end later than the loop over the records.
C16_FindIsComplete ==
    \A o \in OpIds :
        LET op == ops[o]
        IN  /\ op.kind = "find" /\ op.calls = {"find"} /\ op.drv = "none"
            /\ op.pc \in {"did", "done"} /\ op.err \in {"none", "didHook"}
            => op.list = Initialized(op.spec)

\* C17: every call of get, getOrCreate, find, findLimit, findOne, _save and
\* _delete calls the callback of the caller exactly once, whatever the
\* outcome, and the callback of its core action is called at most once.
C17_CallbackExactlyOnce ==
    \A o \in OpIds :
        LET op == ops[o]
        IN  /\ op.kind \in {"get", "getOrCreate", "find", "findLimit", "findOne",
                            "save", "delete"}
            /\ op.pc \in {"done", "thrown"} /\ op.err # "noPrimaryKey"
            => op.pc = "done" /\ op.cbs = 1 /\ op.coreCbs <= 1

\* C18: in Model.getOrCreate, an error of get reaches the callback with the
\* flag false and create is not called; when get finds nothing and create
\* fails, the error of create reaches the callback and no Document is
\* reported as created without an error.
C18_GetOrCreateErrors ==
    \A o \in OpIds :
        LET op == ops[o]
        IN  op.kind = "getOrCreate" /\ op.pc \in {"done", "thrown"} =>
               /\ op.made = "none" /\ op.err # "none" =>
                      op.pc = "done" /\ ~op.created /\ op.cbs = 1
               /\ op.made \notin {"none", "ok"} =>
                      op.pc = "done" /\ ~op.created /\ op.err = op.made

\* the del of operation o runs in this step
DelStep(o) == ops[o].pc = "will" /\ ops'[o].calls = {"del"}

C19_Step ==
    \A o \in OpIds :
        DelStep(o) =>
            LET spec == KeySpec(ops'[o].key)
            IN  /\ MemFind(data', spec) = <<>>
                /\ \A i \in 1..Len(data) :
                       ~matchSpec(data[i].rec, spec) =>
                           \E j \in 1..Len(data') : data'[j] = data[i]
                /\ ops'[o].count = Len(data) - Len(data')

\* C19: after driver.del(model, spec) has ended without error no record that
\* matches spec is stored, every record that does not match is stored as
\* before, and the count reported is the number of records removed,
\* whatever posts and puts wrote the records.
C19_DelRemovesMatches == [][C19_Step]_vars

\* the fields of a Document that the caller of these runs never sets
Untouched == Props \ {pkName, "name"}

\* C20: after Model.create every property with a declared default whose
\* field is unset holds the default, falsy defaults too, and the properties
\* without a default are unset.
C20_DefaultsApplied ==
    \A d \in DocIds :
        docs[d].origin = "create" =>
            \A f \in Untouched : docs[d].raw[f] = defaults[f]

\* C22: every record the memory driver holds under a key k carries
\* _primaryKey = k, after any posts, puts and dels, so that a del that
\* matches the record removes the entry stored under k.
C22_StoredUnderOwnKey ==
    \A i \in 1..Len(data) : data[i].rec["_primaryKey"] = data[i].key

-----------------------------------------------------------------------------
(* Model._initialize, callback by callback *)

\* model._initialize(raw, cb) is called on a Model with nw willInitialize
\* and nd didInitialize callbacks registered
InitializeCall(o, raw, nw, nd) ==
    /\ Call(o, initialized([IdleOp EXCEPT !.kind = "initialize", !.pc = "init"],
                           [NoInit EXCEPT !.pc = "will", !.nw = nw, !.nd = nd,
                                          !.data0 = raw, !.data = raw],
                           "none"))
    /\ UNCHANGED <<pkName, defaults, data, minted, docs, last>>

\* the next willInitialize callback does h and calls back
WillInitialize(o, h) ==
    /\ ops[o].kind = "initialize"
    /\ ops[o].pc = "init"
    /\ ops[o].ini.pc = "will"
    /\ LET s == [ops[o].ini EXCEPT
                    !.ran = Append(@, h), !.order = Append(@, "will"),
                    !.data = IF h.act = "data" THEN h.raw ELSE @,
                    !.documentClass = IF h.act = "class" THEN "Custom" ELSE @]
       IN  ops' = [ops EXCEPT ![o] =
                      initialized(@, s, IF h.act = "fail" THEN "initHook" ELSE "none")]
    /\ UNCHANGED <<pkName, defaults, data, minted, docs, last>>

\* the next didInitialize callback calls back, with an error or without
DidInitialize(o, c) ==
    /\ ops[o].kind = "initialize"
    /\ ops[o].pc = "init"
    /\ ops[o].ini.pc = "did"
    /\ LET s == [ops[o].ini EXCEPT !.dids = @ + 1, !.order = Append(@, "did")]
       IN  ops' = [ops EXCEPT ![o] =
                      initialized(@, s, IF c = "fail" THEN "initHook" ELSE "none")]
    /\ UNCHANGED <<pkName, defaults, data, minted, docs, last>>

\* Model._initialize alone, one call at a time
NextInit ==
    \/ \E raw \in InitRaws, nw \in 0..MaxHooks, nd \in 0..MaxHooks :
           InitializeCall(1, raw, nw, nd)
    \/ \E h \in WillInitHooks : WillInitialize(1, h)
    \/ \E c \in DidOutcomes : DidInitialize(1, c)
    \/ Return(1, FALSE)

SpecInit == InitPlain /\ [][NextInit]_vars

\* where in order the Document was constructed (0: it was not)
BuiltAt(s) ==
    IF \E i \in 1..Len(s.order) : s.order[i] = "new"
    THEN CHOOSE i \in 1..Len(s.order) : s.order[i] = "new"
    ELSE 0

\* args.data and args.documentClass as the willInitialize callbacks that
\* have called back left them
LeftData(s) ==
    LET idx == {i \in 1..Len(s.ran) : s.ran[i].act = "data"}
    IN  IF idx = {} THEN s.data0
        ELSE s.ran[CHOOSE i \in idx : \A j \in idx : j <= i].raw

LeftClass(s) ==
    IF \E i \in 1..Len(s.ran) : s.ran[i].act = "class" THEN "Custom" ELSE "Document"

WillFailed(s) == \E i \in 1..Len(s.ran) : s.ran[i].act = "fail"

\* C21: Model._initialize constructs the Document once, after every
\* willInitialize callback has called back without error, from args.data and
\* args.documentClass as those callbacks left them; the didInitialize
\* callbacks run after the construction only; and when a willInitialize
\* callback fails no Document is constructed, no didInitialize callback runs
\* and cb gets the error and an undefined Document.
C21_InitializeOrder ==
    \A o \in OpIds :
        LET op == ops[o]
            s  == op.ini
            at == BuiltAt(s)
        IN  op.kind = "initialize" =>
               /\ \A i \in 1..Len(s.order) : s.order[i] = "new" => i = at
               /\ at # 0 =>
                     /\ at = s.nw + 1
                     /\ \A i \in 1..s.nw : s.order[i] = "will"
                     /\ ~WillFailed(s)
                     /\ s.document = NewDocument(LeftData(s), "initialize")
                     /\ s.built = LeftClass(s)
               /\ \A i \in 1..Len(s.order) :
                     s.order[i] = "did" => at # 0 /\ at < i
               /\ WillFailed(s) =>
                     /\ at = 0 /\ s.dids = 0 /\ s.document = NoDoc
                     /\ op.pc = "done" /\ op.cbs = 1
                     /\ op.err = "initHook" /\ op.res = NoDoc
               /\ at = 0 => s.document = NoDoc /\ s.built = "none"

\* an _initialize whose willInitialize callbacks replaced args.data and
\* args.documentClass has constructed its Document, run didInitialize and
\* called back
C21_Witness ==
    \E o \in OpIds :
        LET op == ops[o]
            s  == op.ini
        IN  /\ op.kind = "initialize" /\ op.pc = "done" /\ op.err = "none"
            /\ s.nw = MaxHooks /\ s.dids > 0
            /\ s.data # s.data0 /\ s.documentClass = "Custom"
            /\ op.res = s.document /\ op.res # NoDoc

====
